---- MODULE Spec2Model ----
(***************************************************************************)
(* Model of datadog_checks/dev/kind.py: the kind_run context manager and   *)
(* the two callables it hands to environment_run, KindUp (Acquire) and     *)
(* KindDown (Release).                                                     *)
(*                                                                         *)
(* Paths are sequences of path segments, None is the empty sequence.  The  *)
(* filesystem is the set of existing directories and the set of existing   *)
(* regular files.  Every external command that is invoked is appended to   *)
(* the log `events` of the current use of kind_run, with the arguments and *)
(* the environment it was invoked with.                                    *)
(***************************************************************************)
EXTENDS Naturals, Sequences, FiniteSets

VARIABLES
    pc,                 \* position of the process: "idle", "up", "body", "down"
    runs,               \* number of uses of kind_run started so far
    directory,          \* kind_run's argument of the current use
    check_root,         \* find_check_root(depth=3) in the current use
    check_name,         \* get_check_name(check_root)
    tox_env,            \* get_tox_env()
    kind_available,     \* which('kind') found the executable
    up_cluster_name,    \* KindUp.cluster_name ("" while no KindUp exists)
    down_cluster_name,  \* KindDown.cluster_name ("" while no KindDown exists)
    up_step,            \* the statement KindUp.__call__ is about to run
    dst,                \* KindUp.__call__'s local dst
    tmp_path,           \* KindUp.__call__'s local tmp_path
    result,             \* what KindUp.__call__ returned (yielded by kind_run)
    state,              \* the shared slot 'kubeconfig_path' (None: <<>>)
    dirs,               \* filesystem: existing directories
    files,              \* filesystem: existing regular files
    events,             \* commands and steps of the current use, in order
    up_status,          \* "none", "running", "returned", "raised"
    body_status,        \* "none", "returned", "raised"
    down_status,        \* "none", "returned", "raised"
    skipped,            \* pytest.skip was raised in the current use
    PY3,                \* six.PY3: the interpreter of the process is Python 3
    state0,             \* history: the slot when the current use started
    dirs0,              \* history: dirs when the current use started
    files0              \* history: files when the current use started

vars == <<pc, runs, directory, check_root, check_name, tox_env, kind_available,
          up_cluster_name, down_cluster_name, up_step, dst, tmp_path, result,
          state, dirs, files, events, up_status, body_status, down_status,
          skipped, PY3, state0, dirs0, files0>>

\* ------------------------------------------------------------------ bounds

MaxRuns == 2

\* ------------------------------------------------------------------ inputs

None == <<>>

Contexts ==
    { [root |-> <<"repo", "nginx">>, name |-> "nginx"],
      [root |-> <<"repo", "redis">>, name |-> "redis"] }

ToxEnvs == {"py27", "py38"}

\* <<"tmp","a">> exists as a directory, <<"tmp","b">> does not exist,
\* <<"tmp","f">> exists as a regular file.
Directories == { <<"tmp", "a">>, <<"tmp", "b">>, <<"tmp", "f">> }

InitDirs == { <<"repo">>, <<"tmp">>, <<"tmp", "a">> } \cup { c.root : c \in Contexts }

InitFiles == { <<"tmp", "f">> }

\* ----------------------------------------------------------------- helpers

path_join(p, name) == Append(p, name)

basename(p) == p[Len(p)]

IsPrefix(s, p) == Len(s) <= Len(p) /\ SubSeq(p, 1, Len(s)) = s

Event(e, n, p, ok) == [ev |-> e, name |-> n, path |-> p, ok |-> ok]

EventsOf(e) == { i \in 1..Len(events) : events[i].ev = e }

\* ------------------------------------------------------- kind.py, operators

\* KindUp.__init__: '{}-{}-cluster'.format(self.check_name, get_tox_env())
KindUpClusterName(cn, te) == cn \o "-" \o te \o "-cluster"

\* A KindDown that names the cluster as KindUp's docstring does.
KindDownClusterNameNoEnv(cn, te) == cn \o "-cluster"

\* KindDown.__init__: '{}-{}-cluster'.format(self.check_name, get_tox_env())
KindDownClusterName(cn, te) == cn \o "-" \o te \o "-cluster"

\* KindUp.__call__: kube_path = path_join(self.check_root, '.kube')
kube_path(root) == path_join(root, ".kube")

\* KindUp.__call__: the KUBECONFIG of create and export
UpKubeconfig(root) == path_join(kube_path(root), "config")

\* kind_run with the availability test dropped.
NeverSkip(avail) == FALSE

\* kind_run: if not which('kind'): pytest.skip(...)
SkipIfNoKind(avail) == ~avail

\* run_command(..., check=False): a non-zero exit status is returned, not raised.
RunCommandNoCheck(ok) == FALSE

\* run_command(..., check=True) raises when the command exits non-zero.
RunCommandRaises(ok) == ~ok

\* KindUp.__call__ without the export command.
KindUpStepAfterNoExport(step) ==
    CASE step = "create" -> "move"
      [] step = "export" -> "move"
      [] step = "move"   -> "save"
      [] step = "save"   -> "return"

\* KindUp.__call__ recording the path before relocating the directory.
KindUpStepAfterSaveFirst(step) ==
    CASE step = "create" -> "export"
      [] step = "export" -> "save"
      [] step = "save"   -> "move"
      [] step = "move"   -> "return"

\* KindUp.__call__: the order of its statements.
KindUpStepAfter(step) ==
    CASE step = "create" -> "export"
      [] step = "export" -> "move"
      [] step = "move"   -> "save"
      [] step = "save"   -> "return"

\* The kind CLI writes the kubeconfig to $KUBECONFIG, creating its directory.
KubeconfigDirs(ds, p) == ds \cup { SubSeq(p, 1, Len(p) - 1) }

KubeconfigFiles(fs, p) == fs \cup { p }

\* shutil.move(src, d): the place the directory is moved to.
MoveRealDst(ds, src, d) == IF d \in ds THEN path_join(d, basename(src)) ELSE d

\* shutil.move(src, d): what the call returns. Python 3 returns the place the
\* directory was moved to, Python 2 returns nothing (None).
MoveReturn(py3, ds, src, d) == IF py3 THEN MoveRealDst(ds, src, d) ELSE None

\* path_join(p, 'config') raises when p is None.
PathJoinRaises(p) == p = None

\* shutil.move(src, d) raises: no source, the destination inside an existing
\* directory is taken, or the destination is a regular file.
MoveRaises(ds, fs, src, d) ==
    \/ src \notin ds
    \/ d \in ds /\ MoveRealDst(ds, src, d) \in (ds \cup fs)
    \/ d \notin ds /\ d \in fs

Rebase(p, src, to) ==
    IF IsPrefix(src, p) THEN to \o SubSeq(p, Len(src) + 1, Len(p)) ELSE p

\* shutil.move(src, d): the filesystem after a successful move.
MoveDirs(ds, src, d) == { Rebase(p, src, MoveRealDst(ds, src, d)) : p \in ds }

MoveFiles(ds, fs, src, d) == { Rebase(p, src, MoveRealDst(ds, src, d)) : p \in fs }

\* A tmp_path computed from the caller's directory instead of move's result.
TmpPathOfDirectory(d, dir) == path_join(dir, "config")

\* KindUp.__call__: tmp_path = path_join(dst, 'config')
TmpPath(d, dir) == path_join(d, "config")

\* A KindDown that reuses the KUBECONFIG of create and export.
DownKubeconfigOriginal(slot, root) == UpKubeconfig(root)

\* KindDown.__call__: kubeconfig_path = get_state('kubeconfig_path')
DownKubeconfig(slot, root) == slot

\* EnvVars({'KUBECONFIG': v}): os.environ takes strings only, so entering the
\* block with v = None raises.
EnvVarsEnterRaises(v) == v = None

\* environment_run: the body runs when up returned; down runs in any case.
environment_run_after_up(returned) == IF returned THEN "body" ELSE "down"

environment_run_after_body == "down"

environment_run_after_down == "idle"

\* --------------------------------------------------------- state machine

Init ==
    /\ pc = "idle"
    /\ runs = 0
    /\ directory = None
    /\ check_root = None
    /\ check_name = ""
    /\ tox_env = ""
    /\ kind_available = FALSE
    /\ up_cluster_name = ""
    /\ down_cluster_name = ""
    /\ up_step = "create"
    /\ dst = None
    /\ tmp_path = None
    /\ result = None
    /\ state = None
    /\ dirs = InitDirs
    /\ files = InitFiles
    /\ events = <<>>
    /\ up_status = "none"
    /\ body_status = "none"
    /\ down_status = "none"
    /\ skipped = FALSE
    /\ PY3 \in BOOLEAN
    /\ state0 = None
    /\ dirs0 = InitDirs
    /\ files0 = InitFiles

\* kind_run(directory), up to the entry of environment_run: skip the test when
\* kind is missing, else build KindUp and KindDown and start with up.
kind_run(d, ctx, te, avail) ==
    /\ pc = "idle"
    /\ runs < MaxRuns
    /\ runs' = runs + 1
    /\ directory' = d
    /\ check_root' = ctx.root
    /\ check_name' = ctx.name
    /\ tox_env' = te
    /\ kind_available' = avail
    /\ events' = <<>>
    /\ up_step' = "create"
    /\ dst' = None
    /\ tmp_path' = None
    /\ result' = None
    /\ up_status' = "none"
    /\ body_status' = "none"
    /\ down_status' = "none"
    /\ state0' = state
    /\ dirs0' = dirs
    /\ files0' = files
    /\ IF SkipIfNoKind(avail)
         THEN /\ skipped' = TRUE
              /\ up_cluster_name' = ""
              /\ down_cluster_name' = ""
              /\ pc' = "idle"
         ELSE /\ skipped' = FALSE
              /\ up_cluster_name' = KindUpClusterName(ctx.name, te)
              /\ down_cluster_name' = KindDownClusterName(ctx.name, te)
              /\ pc' = "up"
    /\ UNCHANGED <<state, dirs, files, PY3>>

\* KindUp.__call__ goes on after `step` succeeded; tp is tmp_path by then.
KindUpContinue(step, tp) ==
    IF KindUpStepAfter(step) = "return"
      THEN /\ up_step' = "return"
           /\ up_status' = "returned"
           /\ result' = tp
           /\ pc' = environment_run_after_up(TRUE)
      ELSE /\ up_step' = KindUpStepAfter(step)
           /\ up_status' = "running"
           /\ result' = result
           /\ pc' = "up"

\* KindUp.__call__ ends with the exception of its current statement.
KindUpRaise ==
    /\ up_step' = up_step
    /\ up_status' = "raised"
    /\ result' = result
    /\ pc' = environment_run_after_up(FALSE)

\* KindUp.__call__: run_command(['kind', 'create', 'cluster', '--name', ...])
KindUpCreate(ok) ==
    /\ pc = "up"
    /\ up_step = "create"
    /\ events' = Append(events, Event("create", up_cluster_name, UpKubeconfig(check_root), ok))
    /\ IF ok
         THEN /\ dirs' = KubeconfigDirs(dirs, UpKubeconfig(check_root))
              /\ files' = KubeconfigFiles(files, UpKubeconfig(check_root))
         ELSE UNCHANGED <<dirs, files>>
    /\ IF RunCommandRaises(ok) THEN KindUpRaise ELSE KindUpContinue("create", tmp_path)
    /\ UNCHANGED <<runs, directory, check_root, check_name, tox_env, kind_available,
                   up_cluster_name, down_cluster_name, dst, tmp_path, state,
                   body_status, down_status, skipped, PY3, state0, dirs0, files0>>

\* KindUp.__call__: run_command(['kind', 'export', 'kubeconfig', '--name', ...])
KindUpExport(ok) ==
    /\ pc = "up"
    /\ up_step = "export"
    /\ events' = Append(events, Event("export", up_cluster_name, UpKubeconfig(check_root), ok))
    /\ IF ok
         THEN /\ dirs' = KubeconfigDirs(dirs, UpKubeconfig(check_root))
              /\ files' = KubeconfigFiles(files, UpKubeconfig(check_root))
         ELSE UNCHANGED <<dirs, files>>
    /\ IF RunCommandRaises(ok) THEN KindUpRaise ELSE KindUpContinue("export", tmp_path)
    /\ UNCHANGED <<runs, directory, check_root, check_name, tox_env, kind_available,
                   up_cluster_name, down_cluster_name, dst, tmp_path, state,
                   body_status, down_status, skipped, PY3, state0, dirs0, files0>>

\* KindUp.__call__: dst = shutil.move(kube_path, self.directory), then
\* tmp_path = path_join(dst, 'config'), which raises when move returned None:
\* the directory is moved by then and no path is recorded.
KindUpMove ==
    /\ pc = "up"
    /\ up_step = "move"
    /\ IF MoveRaises(dirs, files, kube_path(check_root), directory)
         THEN /\ events' = Append(events, Event("move", "", None, FALSE))
              /\ UNCHANGED <<dirs, files, dst, tmp_path>>
              /\ KindUpRaise
         ELSE /\ dst' = MoveReturn(PY3, dirs, kube_path(check_root), directory)
              /\ events' = Append(events, Event("move", "",
                                MoveRealDst(dirs, kube_path(check_root), directory), TRUE))
              /\ dirs' = MoveDirs(dirs, kube_path(check_root), directory)
              /\ files' = MoveFiles(dirs, files, kube_path(check_root), directory)
              /\ IF PathJoinRaises(dst')
                   THEN /\ tmp_path' = tmp_path
                        /\ KindUpRaise
                   ELSE /\ tmp_path' = TmpPath(dst', directory)
                        /\ KindUpContinue("move", tmp_path')
    /\ UNCHANGED <<runs, directory, check_root, check_name, tox_env, kind_available,
                   up_cluster_name, down_cluster_name, state,
                   body_status, down_status, skipped, PY3, state0, dirs0, files0>>

\* KindUp.__call__: save_state('kubeconfig_path', tmp_path)
KindUpSave ==
    /\ pc = "up"
    /\ up_step = "save"
    /\ state' = tmp_path
    /\ events' = Append(events, Event("save", "kubeconfig_path", tmp_path, TRUE))
    /\ KindUpContinue("save", tmp_path)
    /\ UNCHANGED <<runs, directory, check_root, check_name, tox_env, kind_available,
                   up_cluster_name, down_cluster_name, dst, tmp_path, dirs, files,
                   body_status, down_status, skipped, PY3, state0, dirs0, files0>>

\* The body of the with-block, which returns or raises.
Body(ok) ==
    /\ pc = "body"
    /\ events' = Append(events, Event("body", "", result, ok))
    /\ body_status' = IF ok THEN "returned" ELSE "raised"
    /\ pc' = environment_run_after_body
    /\ UNCHANGED <<runs, directory, check_root, check_name, tox_env, kind_available,
                   up_cluster_name, down_cluster_name, up_step, dst, tmp_path, result,
                   state, dirs, files, up_status, down_status, skipped,
                   PY3, state0, dirs0, files0>>

\* KindDown.__call__: read the slot, enter EnvVars, run 'kind delete cluster'.
KindDownCall(ok) ==
    /\ pc = "down"
    /\ IF EnvVarsEnterRaises(DownKubeconfig(state, check_root))
         THEN /\ events' = events
              /\ down_status' = "raised"
         ELSE /\ events' = Append(events, Event("delete", down_cluster_name,
                                                DownKubeconfig(state, check_root), ok))
              /\ down_status' = IF RunCommandRaises(ok) THEN "raised" ELSE "returned"
    /\ pc' = environment_run_after_down
    /\ UNCHANGED <<runs, directory, check_root, check_name, tox_env, kind_available,
                   up_cluster_name, down_cluster_name, up_step, dst, tmp_path, result,
                   state, dirs, files, up_status, body_status, skipped,
                   PY3, state0, dirs0, files0>>

Next ==
    \/ \E d \in Directories, ctx \in Contexts, te \in ToxEnvs, avail \in BOOLEAN :
          kind_run(d, ctx, te, avail)
    \/ \E ok \in BOOLEAN : KindUpCreate(ok)
    \/ \E ok \in BOOLEAN : KindUpExport(ok)
    \/ KindUpMove
    \/ KindUpSave
    \/ \E ok \in BOOLEAN : Body(ok)
    \/ \E ok \in BOOLEAN : KindDownCall(ok)

Spec == Init /\ [][Next]_vars

\* ------------------------------------------------------------- properties

IsAcquireEvent(e) == e.ev \in {"create", "export", "move", "save"}

AcquireEvents == SelectSeq(events, IsAcquireEvent)

AcquireOrder == <<"create", "export", "move", "save">>

Failed(e) == \E i \in EventsOf(e) : ~events[i].ok

Succeeded(e) == \E i \in EventsOf(e) : events[i].ok

\* C1: the steps of Acquire happen one after the other in the order create,
\* export, move, save, each at most once at any time; an Acquire that has
\* returned has done each exactly once, each with success, the move into the
\* caller's directory and the save under the key 'kubeconfig_path'.
C1_AcquireOrder ==
    /\ Len(AcquireEvents) <= 4
    /\ \A i \in 1..Len(AcquireEvents) : AcquireEvents[i].ev = AcquireOrder[i]
    /\ up_status = "returned" =>
          /\ Len(AcquireEvents) = 4
          /\ \A i \in 1..4 : AcquireEvents[i].ok
          /\ AcquireEvents[1].name = up_cluster_name
          /\ AcquireEvents[2].name = up_cluster_name
          /\ AcquireEvents[3].path = MoveRealDst(dirs0, kube_path(check_root), directory)
          /\ AcquireEvents[4].name = "kubeconfig_path"

C1_Witness == up_status = "returned" /\ Len(AcquireEvents) = 4

\* C2: the name Release passes to 'kind delete cluster' is the name Acquire
\* passed to 'kind create cluster' and 'kind export kubeconfig' in the same use.
C2_SameClusterName ==
    \A i \in EventsOf("delete") :
        /\ events[i].name = up_cluster_name
        /\ \A j \in EventsOf("create") \cup EventsOf("export") :
              events[j].name = events[i].name

C2_Witness ==
    /\ EventsOf("delete") # {}
    /\ Succeeded("create")
    /\ EventsOf("export") # {}

\* C3: after a completed Acquire, delete runs with KUBECONFIG equal to the path
\* that Acquire recorded (<dst>/config), not <check_root>/.kube/config, and
\* Release leaves the slot as it found it.
C3_DeleteUsesRecordedPath ==
    /\ up_status = "returned" =>
          \A i \in EventsOf("delete") :
              /\ events[i].path = state
              /\ events[i].path = path_join(dst, "config")
              /\ \E j \in EventsOf("save") : j < i /\ events[j].path = events[i].path
              /\ events[i].path # UpKubeconfig(check_root)
    /\ (down_status # "none" /\ up_status = "returned") => state = tmp_path
    /\ (down_status # "none" /\ up_status # "returned") => state = state0

C3_Witness == up_status = "returned" /\ EventsOf("delete") # {}

\* C4: each of create, export and delete is invoked at most once per use; a
\* failed create is followed by no export; after a failed create or export
\* nothing is moved and the slot is as it was; the failure ends the call.
C4_FailurePropagates ==
    /\ \A e \in {"create", "export", "delete"} : Cardinality(EventsOf(e)) <= 1
    /\ Failed("create") => EventsOf("export") = {}
    /\ (Failed("create") \/ Failed("export")) =>
          /\ EventsOf("move") = {}
          /\ EventsOf("save") = {}
          /\ state = state0
          /\ up_status = "raised"
          /\ result = None
    /\ Failed("delete") => down_status = "raised"

C4_Witness == Succeeded("create") /\ Failed("export") /\ pc = "idle"

\* C5: when a use of kind_run has ended and its create succeeded, delete was
\* invoked after it for the same cluster; delete is never invoked before create.
C5_SafeTeardown ==
    /\ \A i \in EventsOf("delete") : \E j \in EventsOf("create") : j < i
    /\ (pc = "idle" /\ runs > 0) =>
          \A j \in EventsOf("create") :
              events[j].ok =>
                  \E i \in EventsOf("delete") : i > j /\ events[i].name = events[j].name

\* C6: the name passed to 'kind create cluster --name' is <integration>-cluster.
C6_DocstringClusterName ==
    \A i \in EventsOf("create") : events[i].name = check_name \o "-cluster"

\* C7: a completed Acquire returns the path it recorded in the slot; the path
\* is the 'config' file in the relocated directory where it now is, inside the
\* caller's directory when that existed and at the caller's directory when it
\* did not; once the move is done nothing remains at <check_root>/.kube.
C7_ReturnedPath ==
    /\ up_status = "returned" =>
          /\ result = state
          /\ result = path_join(dst, "config")
          /\ result \in files
          /\ dst \in dirs
          /\ directory \in dirs0 => dst = path_join(directory, ".kube")
          /\ directory \notin dirs0 => dst = directory
    /\ Succeeded("move") =>
          /\ kube_path(check_root) \notin dirs
          /\ UpKubeconfig(check_root) \notin files

\* Both cases have happened: the first use renamed .kube to the directory, the
\* second moved .kube inside it.
C7_Witness ==
    /\ up_status = "returned"
    /\ directory \in dirs0
    /\ state0 = path_join(directory, "config")

\* C8: the slot is written only by an Acquire whose create and export
\* succeeded and whose move is done, with the path of a file that is there.
C8_SlotWrittenAfterMove ==
    /\ \A i \in EventsOf("save") :
          /\ i = 4
          /\ events[1].ev = "create" /\ events[1].ok
          /\ events[2].ev = "export" /\ events[2].ok
          /\ events[3].ev = "move" /\ events[3].ok
          /\ events[i].path = path_join(events[3].path, "config")
          /\ events[i].path = state
          /\ state \in files
    /\ EventsOf("save") = {} => state = state0

C8_Witness == EventsOf("save") # {} /\ state # state0

\* C9: in a use where kind is not available the test is skipped and nothing
\* else happens: no KindUp or KindDown, no command, no move, the slot and the
\* filesystem as they were, the body not entered.
C9_SkipWithoutKind ==
    (runs > 0 /\ ~kind_available) =>
        /\ skipped
        /\ pc = "idle"
        /\ events = <<>>
        /\ up_cluster_name = "" /\ down_cluster_name = ""
        /\ up_status = "none" /\ body_status = "none" /\ down_status = "none"
        /\ state = state0 /\ dirs = dirs0 /\ files = files0
        /\ result = None

C9_Witness == runs = 2 /\ ~kind_available /\ skipped /\ state # None

====
